---- MODULE Spec2Model ----
(***************************************************************************)
(* A model of the colorspace crate (src/src/lib.rs): conversions between   *)
(* sRGB, CIE XYZ, CIELUV, HCL and RGBW, and gradients interpolated in      *)
(* CIELUV.  Every channel of the crate is an f32, so the model carries an  *)
(* IEEE-754 binary32 arithmetic: a value is a sign, a 24-bit significand   *)
(* and an exponent (or an infinity, or NaN), and every operation rounds to *)
(* nearest, ties to even, overflows to infinity and underflows through the *)
(* subnormals exactly as the hardware does.                                *)
(***************************************************************************)
EXTENDS Integers, Sequences, FiniteSets, TLC

(***************************************************************************)
(* binary32 values                                                         *)
(***************************************************************************)

\* A finite value is s * m * 2^e with s in {1,-1}; it is canonical when
\* 2^23 <= m < 2^24 and EMin <= e <= EMax (normal), or m < 2^23 and
\* e = EMin (zero and the subnormals).
EMin == 0 - 149
EMax == 127 - 23
Hidden == 2^23
MantLimit == 2^24

Fin(s, m, e) == [k |-> "fin", s |-> s, m |-> m, e |-> e]
Inf(s) == [k |-> "inf", s |-> s, m |-> 0, e |-> 0]
NaN == [k |-> "nan", s |-> 1, m |-> 0, e |-> 0]
Zero(s) == Fin(s, 0, EMin)

IsNaN(a) == a.k = "nan"
IsInf(a) == a.k = "inf"
IsFinite(a) == a.k = "fin"
IsZero(a) == a.k = "fin" /\ a.m = 0

\* The number of significant bits of n, 0 <= n < 2^30.
RECURSIVE BitLenFrom(_, _)
BitLenFrom(n, k) == IF k = 0 \/ n >= 2^(k - 1) THEN k ELSE BitLenFrom(n, k - 1)
BitLen(n) == IF n >= Hidden /\ n < MantLimit THEN 24 ELSE BitLenFrom(n, 30)

MaxInt(a, b) == IF a >= b THEN a ELSE b

\* Round to nearest, ties to even: q is the significand kept, rem the part
\* shifted out, half the weight of its top bit.  A significand rounded up to
\* 2^24 moves to the next exponent; an exponent above EMax is an infinity.
RoundCarry(s, q1, e1) ==
    IF q1 = MantLimit
    THEN (IF e1 + 1 > EMax THEN Inf(s) ELSE Fin(s, Hidden, e1 + 1))
    ELSE (IF e1 > EMax THEN Inf(s) ELSE Fin(s, q1, e1))

RoundShift(s, q, rem, half, sticky, e1) ==
    RoundCarry(s,
               IF rem > half \/ (rem = half /\ (sticky \/ q % 2 = 1))
               THEN q + 1 ELSE q,
               e1)

PackAt(s, M, e, sticky, nb, e1) ==
    IF e1 <= e
    THEN (IF e1 > EMax THEN Inf(s) ELSE Fin(s, M * 2^(e - e1), e1))
    ELSE IF e1 - e > nb THEN Zero(s)
    ELSE RoundShift(s, M \div 2^(e1 - e), M % 2^(e1 - e), 2^(e1 - e - 1),
                    sticky, e1)

PackBits(s, M, e, sticky, nb) ==
    PackAt(s, M, e, sticky, nb, MaxInt(e + nb - 24, EMin))

\* The binary32 nearest to M * 2^e (plus, when sticky, a positive fraction
\* of 2^e below it).  M < 2^30; a sticky M has at least 25 bits.
Pack(s, M, e, sticky) ==
    IF M = 0 THEN Zero(s) ELSE PackBits(s, M, e, sticky, BitLen(M))

\* A small integer as an f32 (exact below 2^24).
FInt(n) == IF n < 0 THEN Pack(0 - 1, 0 - n, 0, FALSE) ELSE Pack(1, n, 0, FALSE)

\* A nonzero finite value with its significand shifted up to 24 bits (the
\* exponent of a subnormal goes below EMin).
NormM(a) == IF a.m >= Hidden THEN a.m ELSE a.m * 2^(24 - BitLen(a.m))
NormE(a) == IF a.m >= Hidden THEN a.e ELSE a.e - (24 - BitLen(a.m))

\* |a| >= |b| for finite canonical values.
MagGe(a, b) == a.e > b.e \/ (a.e = b.e /\ a.m >= b.m)

FNeg(a) == IF IsNaN(a) THEN NaN ELSE [a EXCEPT !.s = 0 - a.s]

\* Addition of finite nonzero x, y with |x| >= |y|: y is shifted down to
\* x's exponent under three guard bits, My is what remains of it and st
\* says whether anything was shifted out.
SubMags(x, M, st) ==
    IF M = 0 /\ ~st THEN Zero(1) ELSE Pack(x.s, M, x.e - 3, st)

AddMags(x, y, My, st) ==
    IF x.s = y.s
    THEN Pack(x.s, x.m * 8 + My, x.e - 3, st)
    ELSE SubMags(x, x.m * 8 - My - (IF st THEN 1 ELSE 0), st)

AddShift(x, y, d) ==
    IF d > 27 THEN AddMags(x, y, 0, TRUE)
    ELSE AddMags(x, y, (y.m * 8) \div 2^d, (y.m * 8) % 2^d # 0)

FAddFinite(a, b) ==
    IF a.m = 0 /\ b.m = 0 THEN Zero(IF a.s = b.s THEN a.s ELSE 1)
    ELSE IF a.m = 0 THEN b
    ELSE IF b.m = 0 THEN a
    ELSE IF MagGe(a, b) THEN AddShift(a, b, a.e - b.e)
    ELSE AddShift(b, a, b.e - a.e)

FAdd(a, b) ==
    IF IsNaN(a) \/ IsNaN(b) THEN NaN
    ELSE IF IsInf(a) /\ IsInf(b) THEN (IF a.s = b.s THEN a ELSE NaN)
    ELSE IF IsInf(a) THEN a
    ELSE IF IsInf(b) THEN b
    ELSE FAddFinite(a, b)

FSub(a, b) == FAdd(a, FNeg(b))

\* The 48-bit product of two 24-bit significands from their 12-bit halves,
\* kept as hi * 2^24 + lo.
MulPack(s, hi, lo, e) ==
    Pack(s, hi * 16 + lo \div 2^20, e + 20, lo % 2^20 # 0)

MulLow(s, h, low, e) == MulPack(s, h + low \div MantLimit, low % MantLimit, e)

MulMid(s, hh, mid, ll, e) ==
    MulLow(s, hh + mid \div 4096, ll + (mid % 4096) * 4096, e)

MulParts(s, a1, a0, b1, b0, e) ==
    MulMid(s, a1 * b1, a1 * b0 + a0 * b1, a0 * b0, e)

MulNorm(s, mx, my, e) ==
    MulParts(s, mx \div 4096, mx % 4096, my \div 4096, my % 4096, e)

FMulFinite(a, b) == MulNorm(a.s * b.s, NormM(a), NormM(b), NormE(a) + NormE(b))

FMul(a, b) ==
    IF IsNaN(a) \/ IsNaN(b) THEN NaN
    ELSE IF IsInf(a) \/ IsInf(b)
         THEN (IF IsZero(a) \/ IsZero(b) THEN NaN ELSE Inf(a.s * b.s))
    ELSE IF a.m = 0 \/ b.m = 0 THEN Zero(a.s * b.s)
    ELSE FMulFinite(a, b)

\* Long division, seven quotient bits a step: after four steps q is
\* floor(mx * 2^28 / my) and r the remainder.
RECURSIVE DivIter(_, _, _, _, _, _)
DivIter(s, my, e, q, r, i) ==
    IF i = 0 THEN Pack(s, q, e, r # 0)
    ELSE DivIter(s, my, e, q * 128 + (r * 128) \div my, (r * 128) % my, i - 1)

FDivFinite(a, b) ==
    DivIter(a.s * b.s, NormM(b), NormE(a) - NormE(b) - 28, 0, NormM(a), 4)

FDiv(a, b) ==
    IF IsNaN(a) \/ IsNaN(b) THEN NaN
    ELSE IF IsInf(a) THEN (IF IsInf(b) THEN NaN ELSE Inf(a.s * b.s))
    ELSE IF IsInf(b) THEN Zero(a.s * b.s)
    ELSE IF b.m = 0 THEN (IF a.m = 0 THEN NaN ELSE Inf(a.s * b.s))
    ELSE IF a.m = 0 THEN Zero(a.s * b.s)
    ELSE FDivFinite(a, b)

\* Comparisons: false whenever an operand is NaN; -0.0 = +0.0.
MagKey(a) == IF IsInf(a) THEN <<EMax + 1, 0>> ELSE <<a.e, a.m>>
MagLt(a, b) == MagKey(a)[1] < MagKey(b)[1]
               \/ (MagKey(a)[1] = MagKey(b)[1] /\ MagKey(a)[2] < MagKey(b)[2])
OrdLt(a, b) ==
    IF IsZero(a) /\ IsZero(b) THEN FALSE
    ELSE IF a.s # b.s THEN a.s < b.s
    ELSE IF a.s = 1 THEN MagLt(a, b) ELSE MagLt(b, a)

FLt(a, b) == ~IsNaN(a) /\ ~IsNaN(b) /\ OrdLt(a, b)
FGt(a, b) == FLt(b, a)
FLe(a, b) == ~IsNaN(a) /\ ~IsNaN(b) /\ ~OrdLt(b, a)
FGe(a, b) == FLe(b, a)
FEq(a, b) == FLe(a, b) /\ FLe(b, a)

\* f32::clamp: NaN stays NaN.
FClamp(x, lo, hi) ==
    LET y == IF FLt(x, lo) THEN lo ELSE x
    IN  IF FGt(y, hi) THEN hi ELSE y

\* Square root, correctly rounded: the digit recurrence over the bit pairs
\* of the significand followed by 14 pairs of zeros.
RECURSIVE SqrtIter(_, _, _, _)
SqrtStep(i, root, r4, rad) ==
    IF r4 >= root * 4 + 1
    THEN SqrtIter(i - 1, root * 2 + 1, r4 - (root * 4 + 1), rad)
    ELSE SqrtIter(i - 1, root * 2, r4, rad)

SqrtIter(i, root, rem, rad) ==
    IF i < 0 THEN <<root, rem>>
    ELSE SqrtStep(i, root,
                  rem * 4 + (IF i >= 14 THEN (rad \div 4^(i - 14)) % 4 ELSE 0),
                  rad)

SqrtPack(rr, ex) == Pack(1, rr[1], ex \div 2 - 14, rr[2] # 0)

SqrtNorm(m, e) ==
    IF e % 2 = 1 THEN SqrtPack(SqrtIter(26, 0, 0, m * 2), e - 1)
    ELSE SqrtPack(SqrtIter(26, 0, 0, m), e)

FSqrt(a) ==
    IF IsNaN(a) THEN NaN
    ELSE IF IsZero(a) THEN a
    ELSE IF a.s < 0 THEN NaN
    ELSE IF IsInf(a) THEN a
    ELSE SqrtNorm(NormM(a), NormE(a))

\* f32::round: to the nearest integer, halves away from zero.
FRound(a) ==
    IF ~IsFinite(a) \/ a.m = 0 \/ a.e >= 0 THEN a
    ELSE IF 0 - a.e > 24 THEN Zero(a.s)
    ELSE Pack(a.s,
              IF 2 * (a.m % 2^(0 - a.e)) >= 2^(0 - a.e)
              THEN a.m \div 2^(0 - a.e) + 1 ELSE a.m \div 2^(0 - a.e),
              0, FALSE)

\* a * 2^k, and floor(log2 |a|) of a nonzero finite a.
ScaleB(a, k) == Pack(a.s, NormM(a), NormE(a) + k, FALSE)
Log2Floor(a) == NormE(a) + 23

\* x * x * ... * x (n factors), multiplied left to right as powi does.
RECURSIVE FPowi(_, _)
FPowi(x, n) == IF n = 1 THEN x ELSE FMul(FPowi(x, n - 1), x)

\* The n-th root of a finite x > 0 by Newton's iteration
\*   y <- ((n-1)*y + x / y^(n-1)) / n
\* on x scaled into [1, 2^n), whose root lies in [1, 2).
NewtonSteps == 8

RECURSIVE NewtonRoot(_, _, _, _)
NewtonNext(x, n, y, y1, i) ==
    IF y1 = y THEN y ELSE NewtonRoot(x, n, y1, i - 1)

NewtonRoot(x, n, y, i) ==
    IF i = 0 \/ ~IsFinite(y) THEN y
    ELSE NewtonNext(x, n, y,
             FDiv(FAdd(FMul(FInt(n - 1), y), FDiv(x, FPowi(y, n - 1))), FInt(n)),
             i)

RootN(x, n) ==
    LET j  == Log2Floor(x) \div n
        x1 == ScaleB(x, 0 - n * j)
    IN  ScaleB(NewtonRoot(x1, n, FInt(2), NewtonSteps), j)

\* f32::powf(x, p/q) for the three exponents the crate uses, computed as
\* the q-th root of the p-th power of x scaled into [1, 2^q); the results
\* agree with the C library's powf to within a few units in the last place.
PowfSpecial(x) ==
    IF IsNaN(x) THEN NaN
    ELSE IF IsZero(x) THEN Zero(1)
    ELSE IF x.s < 0 THEN NaN
    ELSE x

\* x^(1/3)
PowfThird(x) ==
    IF ~IsFinite(x) \/ x.m = 0 \/ x.s < 0 THEN PowfSpecial(x) ELSE RootN(x, 3)

\* x^(1/2.4) = x^(5/12)
PowfInvGamma(x) ==
    IF ~IsFinite(x) \/ x.m = 0 \/ x.s < 0 THEN PowfSpecial(x)
    ELSE LET k  == Log2Floor(x) \div 12
             x1 == ScaleB(x, 0 - 12 * k)
         IN  ScaleB(FSqrt(FSqrt(RootN(FPowi(x1, 5), 3))), 5 * k)

\* x^2.4 = x^(12/5)
PowfGamma(x) ==
    IF ~IsFinite(x) \/ x.m = 0 \/ x.s < 0 THEN PowfSpecial(x)
    ELSE LET k  == Log2Floor(x) \div 5
             x1 == ScaleB(x, 0 - 5 * k)
         IN  ScaleB(RootN(FPowi(x1, 12), 5), 12 * k)

\* f32::sin and f32::cos for arguments of moderate size (the model's hues
\* lie within a few turns): the argument less the nearest multiple of pi/2,
\* then the Taylor polynomial of the quadrant.  The results agree with the
\* C library's to about 1e-6 absolutely.
HalfPi   == Fin(1, 13176795, 0 - 23)     \* 1.57079637
TwoOverPi == Fin(1, 10680707, 0 - 24)    \* 0.636619747

\* k mod 4 of an integer-valued f32 k.
IntMod4Abs(k) ==
    IF k.m = 0 \/ k.e >= 2 THEN 0
    ELSE IF k.e >= 0 THEN (k.m * 2^k.e) % 4
    ELSE (k.m \div 2^(0 - k.e)) % 4
IntMod4(k) == IF k.s < 0 THEN (4 - IntMod4Abs(k)) % 4 ELSE IntMod4Abs(k)

SinPoly(r, r2) ==
    FAdd(r, FMul(FMul(r, r2),
        FAdd(FDiv(FInt(0 - 1), FInt(6)), FMul(r2,
        FAdd(FDiv(FInt(1), FInt(120)), FMul(r2,
        FAdd(FDiv(FInt(0 - 1), FInt(5040)), FMul(r2,
             FDiv(FInt(1), FInt(362880))))))))))

CosPoly(r2) ==
    FAdd(FInt(1), FMul(r2,
        FAdd(FDiv(FInt(0 - 1), FInt(2)), FMul(r2,
        FAdd(FDiv(FInt(1), FInt(24)), FMul(r2,
        FAdd(FDiv(FInt(0 - 1), FInt(720)), FMul(r2,
        FAdd(FDiv(FInt(1), FInt(40320)), FMul(r2,
             FDiv(FInt(0 - 1), FInt(3628800))))))))))))

SinQuadrant(q, r) ==
    IF q = 0 THEN SinPoly(r, FMul(r, r))
    ELSE IF q = 1 THEN CosPoly(FMul(r, r))
    ELSE IF q = 2 THEN FNeg(SinPoly(r, FMul(r, r)))
    ELSE FNeg(CosPoly(FMul(r, r)))

TrigReduce(x, k) == FSub(x, FMul(k, HalfPi))
SinTurns(x, k) == SinQuadrant(IntMod4(k), TrigReduce(x, k))
CosTurns(x, k) == SinQuadrant((IntMod4(k) + 1) % 4, TrigReduce(x, k))

FSin(x) == IF ~IsFinite(x) THEN NaN ELSE SinTurns(x, FRound(FMul(x, TwoOverPi)))
FCos(x) == IF ~IsFinite(x) THEN NaN ELSE CosTurns(x, FRound(FMul(x, TwoOverPi)))

\* f32::to_radians: x * (pi / 180), the constant rounded to f32.
RadsPerDeg == Fin(1, 9370165, 0 - 29)    \* 0.0174532924
ToRadians(x) == FMul(x, RadsPerDeg)

(***************************************************************************)
(* The crate's literals, each the binary32 nearest to the decimal written  *)
(* in lib.rs, as sign * significand * 2^exponent.                          *)
(***************************************************************************)
F0 == Zero(1)
F1 == Fin(1, 8388608, -23)
F903_3 == Fin(1, 14799667, -14)             \* 903.3
F12_92 == Fin(1, 13547602, -20)             \* 12.92
F0_055 == Fin(1, 14763950, -28)             \* 0.055
F1_055 == Fin(1, 8849981, -23)              \* 1.055
F0_04045 == Fin(1, 10858214, -28)           \* 0.04045
F0_0031308 == Fin(1, 13446684, -32)         \* 0.0031308
F0_19783000664283 == Fin(1, 13276147, -26)  \* 0.19783000664283
F0_46831999493879 == Fin(1, 15714211, -25)  \* 0.46831999493879
\* XYZ -> linear RGB (sYCC), row by row, the magnitudes of
\*   3.2406255  1.5372080  0.4986286
\*   0.9689307  1.8758561  0.0415175
\*   0.0557101  0.2040211  1.0570959
SYCC ==
    <<Fin(1, 13592168, -22), Fin(1, 12895035, -23), Fin(1, 16731199, -25),
       Fin(1, 16255960, -24), Fin(1, 15735821, -23), Fin(1, 11144769, -28),
       Fin(1, 14954566, -28), Fin(1, 13691624, -26), Fin(1, 8867563, -23)>>
\* linear RGB -> XYZ (sRGB working space matrix), row by row:
\*   0.4124564  0.3575761  0.1804375
\*   0.2126729  0.7151522  0.0721750
\*   0.0193339  0.1191920  0.9503041
WorkingSpace ==
    <<Fin(1, 13839740, -25), Fin(1, 11998263, -25), Fin(1, 12108956, -26),
       Fin(1, 14272237, -26), Fin(1, 11998263, -24), Fin(1, 9687165, -27),
       Fin(1, 10379809, -29), Fin(1, 15997679, -27), Fin(1, 15943457, -24)>>

(***************************************************************************)
(* lib.rs                                                                  *)
(***************************************************************************)
MkRGB(r, g, b) == [r |-> r, g |-> g, b |-> b]
MkRGBW(r, g, b, w) == [r |-> r, g |-> g, b |-> b, w |-> w]
MkXYZ(x, y, z) == [x |-> x, y |-> y, z |-> z]
MkCIELUV(l, u, v) == [l |-> l, u |-> u, v |-> v]
MkHCL(h, c, l) == [h |-> h, c |-> c, l |-> l]

BLACK == MkRGB(F0, F0, F0)
RED   == MkRGB(F1, F0, F0)
GREEN == MkRGB(F0, F1, F0)
BLUE  == MkRGB(F0, F0, F1)
WHITE == MkRGB(F0, F0, F0)

\* Constants for the D65 white point, and of the XYZ/LUV conversion.
X_REF == Fin(1, 12458000, -17)              \* 95.047
Y_REF == Fin(1, 13107200, -17)              \* 100.0
Z_REF == Fin(1, 14271513, -17)              \* 108.883
K == FDiv(FInt(24389), FInt(27))
E == FDiv(FInt(216), FInt(24389))
RefDenominator == FAdd(FAdd(X_REF, FMul(FInt(15), Y_REF)), FMul(FInt(3), Z_REF))
U_PRIME_REF == FDiv(FMul(FInt(4), X_REF), RefDenominator)
V_PRIME_REF == FDiv(FMul(FInt(9), Y_REF), RefDenominator)

lerp(start, end, t) == FAdd(start, FMul(t, FSub(end, start)))

srgb_to_linear(c) ==
    IF FLe(c, F0_04045) THEN FDiv(c, F12_92)
    ELSE PowfGamma(FDiv(FAdd(c, F0_055), F1_055))

linear_to_srgb(c) ==
    IF FLe(c, F0_0031308) THEN FMul(F12_92, c)
    ELSE FSub(FMul(F1_055, PowfInvGamma(c)), F0_055)

\* The linear RGB channels of an XYZ colour, before companding.
LinearR(xyz) == FSub(FSub(FMul(SYCC[1], xyz.x), FMul(SYCC[2], xyz.y)),
                     FMul(SYCC[3], xyz.z))
LinearG(xyz) == FAdd(FAdd(FMul(FNeg(SYCC[4]), xyz.x), FMul(SYCC[5], xyz.y)),
                     FMul(SYCC[6], xyz.z))
LinearB(xyz) == FAdd(FSub(FMul(SYCC[7], xyz.x), FMul(SYCC[8], xyz.y)),
                     FMul(SYCC[9], xyz.z))

Compand(c) == FClamp(linear_to_srgb(c), F0, F1)

\* impl From<XYZ> for RGB
RGBfromXYZ(xyz) ==
    MkRGB(Compand(LinearR(xyz)), Compand(LinearG(xyz)), Compand(LinearB(xyz)))

\* impl From<RGB> for RGBW
RGBWfromRGB(rgb) == MkRGBW(rgb.r, rgb.g, rgb.b, F0)

\* impl From<XYZ> for RGBW
RGBWfromXYZ(xyz) == RGBWfromRGB(RGBfromXYZ(xyz))

\* XYZ::u_prime, XYZ::v_prime, XYZ::y_ref
PrimeDenominator(xyz) == FAdd(FAdd(xyz.x, FMul(FInt(15), xyz.y)), FMul(FInt(3), xyz.z))
u_prime(xyz) == FDiv(FMul(FInt(4), xyz.x), PrimeDenominator(xyz))
v_prime(xyz) == FDiv(FMul(FInt(9), xyz.y), PrimeDenominator(xyz))
y_ref(xyz) == FDiv(xyz.y, Y_REF)

\* impl From<RGB> for XYZ
XYZfromLinear(r, g, b) ==
    MkXYZ(FAdd(FAdd(FMul(r, WorkingSpace[1]), FMul(g, WorkingSpace[2])),
               FMul(b, WorkingSpace[3])),
          FAdd(FAdd(FMul(r, WorkingSpace[4]), FMul(g, WorkingSpace[5])),
               FMul(b, WorkingSpace[6])),
          FAdd(FAdd(FMul(r, WorkingSpace[7]), FMul(g, WorkingSpace[8])),
               FMul(b, WorkingSpace[9])))

XYZfromRGB(rgb) ==
    XYZfromLinear(srgb_to_linear(rgb.r), srgb_to_linear(rgb.g), srgb_to_linear(rgb.b))

\* impl From<CIELUV> for XYZ
LuvUPrime(cieluv) == FAdd(FDiv(cieluv.u, FMul(FInt(13), cieluv.l)), F0_19783000664283)
LuvVPrime(cieluv) == FAdd(FDiv(cieluv.v, FMul(FInt(13), cieluv.l)), F0_46831999493879)
LuvY(cieluv) ==
    IF FGt(cieluv.l, FInt(8))
    THEN FMul(Y_REF, FPowi(FDiv(FAdd(cieluv.l, FInt(16)), FInt(116)), 3))
    ELSE FDiv(FMul(Y_REF, cieluv.l), F903_3)

XYZfromYUV(y, up, vp) ==
    MkXYZ(FDiv(FMul(FMul(y, FInt(9)), up), FMul(FInt(4), vp)),
          y,
          FDiv(FMul(y, FSub(FSub(FInt(12), FMul(FInt(3), up)), FMul(FInt(20), vp))),
               FMul(FInt(4), vp)))

\* The conversion with its l == 0.0 guard taken out.
XYZfromCIELUV_unguarded(cieluv) ==
    XYZfromYUV(LuvY(cieluv), LuvUPrime(cieluv), LuvVPrime(cieluv))

XYZfromCIELUV(cieluv) ==
    IF FEq(cieluv.l, F0) THEN MkXYZ(F0, F0, F0)
    ELSE XYZfromYUV(LuvY(cieluv), LuvUPrime(cieluv), LuvVPrime(cieluv))

\* impl From<CIELUV> for RGB
RGBfromCIELUV(cieluv) == RGBfromXYZ(XYZfromCIELUV(cieluv))

\* CIELUV::interpolate, CIELUV::chroma, CIELUV::saturation
interpolate(self, end, t) ==
    MkCIELUV(lerp(self.l, end.l, t), lerp(self.u, end.u, t), lerp(self.v, end.v, t))

chroma(self) == FSqrt(FAdd(FPowi(self.u, 2), FPowi(self.v, 2)))

\* saturation() with its l <= 0.0 guard taken out.
saturation_unguarded(self) == FDiv(chroma(self), self.l)

saturation(self) ==
    IF FLe(self.l, F0) THEN F0 ELSE FDiv(chroma(self), self.l)

\* impl From<CIELUV> for RGBW
RGBWsplit(xyz, sat, whiteness) ==
    MkRGBW(Compand(FMul(LinearR(xyz), sat)),
           Compand(FMul(LinearG(xyz), sat)),
           Compand(FMul(LinearB(xyz), sat)),
           Compand(FMul(xyz.y, whiteness)))

\* The split with the white amount Y * saturation.
RGBWfromSaturation_swapped(cieluv, sat) ==
    RGBWsplit(XYZfromCIELUV(cieluv), sat, sat)

RGBWfromSaturation(cieluv, sat) ==
    RGBWsplit(XYZfromCIELUV(cieluv), sat, FSub(F1, sat))

RGBWfromCIELUV(cieluv) == RGBWfromSaturation(cieluv, saturation(cieluv))

\* impl From<XYZ> for CIELUV
LuvL(yr) ==
    IF FGt(yr, E) THEN FSub(FMul(FInt(116), PowfThird(yr)), FInt(16)) ELSE FMul(K, yr)

CIELUVfromLUV(l, up, vp) ==
    MkCIELUV(l,
             FMul(FMul(FInt(13), l), FSub(up, U_PRIME_REF)),
             FMul(FMul(FInt(13), l), FSub(vp, V_PRIME_REF)))

CIELUVfromXYZ(xyz) ==
    IF FEq(xyz.x, F0) /\ FEq(xyz.y, F0) /\ FEq(xyz.z, F0)
    THEN MkCIELUV(F0, F0, F0)
    ELSE CIELUVfromLUV(LuvL(y_ref(xyz)), u_prime(xyz), v_prime(xyz))

\* impl From<RGB> for CIELUV
CIELUVfromRGB(rgb) == CIELUVfromXYZ(XYZfromRGB(rgb))

\* impl From<HCL> for CIELUV
CIELUVfromPolar(hcl, h_rad) ==
    MkCIELUV(hcl.l, FMul(hcl.c, FCos(h_rad)), FMul(hcl.c, FSin(h_rad)))

CIELUVfromHCL(hcl) == CIELUVfromPolar(hcl, ToRadians(hcl.h))

\* impl From<HCL> for RGB, impl From<HCL> for RGBW
RGBfromHCL(hcl) == RGBfromCIELUV(CIELUVfromHCL(hcl))
RGBWfromHCL(hcl) == RGBWfromCIELUV(CIELUVfromHCL(hcl))

(***************************************************************************)
(* test.rs                                                                 *)
(***************************************************************************)
F100 == FInt(100)

round(x) == FDiv(FRound(FMul(x, F100)), F100)

approximately_equal(actual, expected) ==
    /\ FEq(round(actual.r), round(expected.r))
    /\ FEq(round(actual.g), round(expected.g))
    /\ FEq(round(actual.b), round(expected.b))
    /\ FEq(round(actual.w), round(expected.w))

(***************************************************************************)
(* The program: a caller builds a colour from raw channel values and       *)
(* applies the crate's conversions to it, one after the other (origin is   *)
(* the colour built, path the conversions applied, prev the argument of    *)
(* the last one and cur its result); or it runs print_gradient_as_rgbw     *)
(* (test.rs) between two colours, one loop iteration a step.               *)
(***************************************************************************)
VARIABLES pc, origin, path, prev, cur, grad

vars == <<pc, origin, path, prev, cur, grad>>

Tag(space, val) == [space |-> space, val |-> val]

\* The longest chain of conversions, the step counts tried besides the
\* tests', and the tests' step count.
MaxHops == 2
MaxSteps == 4
TestSteps == 100

FHalf == Fin(1, 8388608, -24)                \* 0.5
F30_4407997 == Fin(1, 15959746, -19)         \* 30.4407997
F0_1 == Fin(1, 13421773, -27)
F0_2 == Fin(1, 13421773, -26)
F0_3 == Fin(1, 10066330, -25)
F0_8 == Fin(1, 13421773, -24)

MAGENTA == MkRGB(F1, F0, F1)
YELLOW  == MkRGB(F1, F1, F0)
TEAL    == MkRGB(F0, F1, F1)

RGBInputs ==
    { BLACK, RED, GREEN, BLUE, WHITE, MAGENTA, YELLOW, TEAL,
      MkRGB(F1, F1, F1), MkRGB(FHalf, FHalf, FHalf), MkRGB(F0_8, F0_2, F0_1),
      MkRGB(FInt(2), FNeg(FHalf), FHalf) }

XYZInputs ==
    { MkXYZ(F0, F0, F0), MkXYZ(FNeg(F0), F0, FNeg(F0)),
      MkXYZ(Fin(1, 15946240, -24), F1, Fin(1, 9133768, -23)),  \* 0.95047, 1, 1.08883
      MkXYZ(F0_3, F0_2, F0_1),
      MkXYZ(Fin(1, 12582912, -23), F0_2, FNeg(F0_3)),          \* 1.5, 0.2, -0.3
      MkXYZ(FInt(0 - 15), F1, F0),
      MkXYZ(Fin(1, 14791142, 104), Fin(1, 14791142, 104), F0) } \* 3e38, 3e38, 0

CIELUVInputs ==
    { MkCIELUV(F0, F0, F0), MkCIELUV(F0, FInt(5), FInt(0 - 3)),
      MkCIELUV(FNeg(F0), F1, F1),
      MkCIELUV(FInt(0 - 2), FInt(3), FInt(4)),
      MkCIELUV(Fin(-1, 1, -149), F0, F1),                      \* -1e-45, 0, 1
      MkCIELUV(F1, FInt(3), FInt(4)), MkCIELUV(FInt(5), FInt(3), FInt(4)),
      MkCIELUV(FInt(5), F0, FInt(5)),
      MkCIELUV(FInt(50), F0, F0), MkCIELUV(FInt(8), F0, F0), MkCIELUV(FHalf, F0, FNeg(F0)),
      MkCIELUV(Fin(1, 14914731, -21), Fin(-1, 11536751, -21), Fin(-1, 9955357, -23)),
      MkCIELUV(FInt(5), F0, FNeg(F30_4407997)),
      MkCIELUV(Fin(1, 8388608, 40), Fin(1, 8388608, 40), F0),  \* 2^63, 2^63, 0
      MkCIELUV(Fin(1, 1, -149), Fin(1, 9765625, 10), F0),      \* 1e-45, 1e10, 0
      MkCIELUV(Fin(1, 11920929, 24), F0, F0) }                 \* 2e14, 0, 0

HCLInputs ==
    { MkHCL(F0, F0, F0), MkHCL(FInt(45), F0_3, F0_8), MkHCL(FInt(180), F1, FHalf),
      MkHCL(FInt(90), FHalf, F1), MkHCL(FInt(360), FInt(2), FInt(5)),
      MkHCL(FInt(270), F30_4407997, FInt(5)), MkHCL(FInt(0 - 90), F1, FInt(0 - 1)) }

Inputs ==
    {Tag("RGB", c) : c \in RGBInputs} \cup {Tag("XYZ", c) : c \in XYZInputs}
    \cup {Tag("CIELUV", c) : c \in CIELUVInputs} \cup {Tag("HCL", c) : c \in HCLInputs}

\* The endpoints of the tests' gradients, and two pairs of raw colours.
GradientPairs ==
    { <<Tag("RGB", RED), Tag("RGB", GREEN)>>,
      <<Tag("RGB", GREEN), Tag("RGB", BLUE)>>,
      <<Tag("RGB", BLUE), Tag("RGB", RED)>>,
      <<Tag("RGB", BLACK), Tag("RGB", WHITE)>>,
      <<Tag("RGB", GREEN), Tag("CIELUV", CIELUVfromRGB(MAGENTA))>>,
      <<Tag("CIELUV", MkCIELUV(FHalf, F0_3, F1)), Tag("CIELUV", MkCIELUV(F0_1, F0_1, F0_2))>>,
      <<Tag("HCL", MkHCL(FInt(90), FHalf, F1)), Tag("XYZ", MkXYZ(F0_3, F0_2, F0_1))>> }

StepCounts == (1..MaxSteps) \cup {TestSteps}

\* Into<CIELUV>
IntoCIELUV(c) ==
    IF c.space = "RGB" THEN CIELUVfromRGB(c.val)
    ELSE IF c.space = "XYZ" THEN CIELUVfromXYZ(c.val)
    ELSE IF c.space = "HCL" THEN CIELUVfromHCL(c.val)
    ELSE c.val

\* print_gradient_as_rgbw before its loop: a and b converted, n iterations
\* done (none yet).
GradientStart(from, to, a, b, steps) ==
    [from |-> from, to |-> to, a |-> a, b |-> b, steps |-> steps, n |-> 0,
     t |-> F0, cieluv |-> a, rgbw |-> MkRGBW(F0, F0, F0, F0), sat |-> F0, c |-> F0,
     last |-> a, lastw |-> F0]

NoGradient ==
    GradientStart(Tag("RGB", BLACK), Tag("RGB", BLACK),
                  MkCIELUV(F0, F0, F0), MkCIELUV(F0, F0, F0), 0)

InitConvert ==
    /\ pc = "convert"
    /\ origin \in Inputs
    /\ path = <<>>
    /\ prev = origin
    /\ cur = origin
    /\ grad = NoGradient

InitGradient ==
    /\ pc = "gradient"
    /\ \E p \in GradientPairs, steps \in StepCounts :
          grad = GradientStart(p[1], p[2], IntoCIELUV(p[1]), IntoCIELUV(p[2]), steps)
    /\ origin = grad.from
    /\ path = <<>>
    /\ prev = origin
    /\ cur = origin

Init == InitConvert \/ InitGradient

\* The caller holds a colour of the space and may convert it once more.
Holds(space) ==
    /\ pc = "convert"
    /\ Len(path) < MaxHops
    /\ cur.space = space

\* One conversion done: cur becomes its result, a value of the space to.
Apply(name, to, result) ==
    /\ path' = Append(path, name)
    /\ prev' = cur
    /\ cur' = Tag(to, result)
    /\ UNCHANGED <<pc, origin, grad>>

XYZtoRGB ==
    /\ Holds("XYZ")
    /\ Apply("XYZ->RGB", "RGB", RGBfromXYZ(cur.val))

CIELUVtoRGB ==
    /\ Holds("CIELUV")
    /\ Apply("CIELUV->RGB", "RGB", RGBfromCIELUV(cur.val))

HCLtoRGB ==
    /\ Holds("HCL")
    /\ Apply("HCL->RGB", "RGB", RGBfromHCL(cur.val))

RGBtoRGBW ==
    /\ Holds("RGB")
    /\ Apply("RGB->RGBW", "RGBW", RGBWfromRGB(cur.val))

XYZtoRGBW ==
    /\ Holds("XYZ")
    /\ Apply("XYZ->RGBW", "RGBW", RGBWfromXYZ(cur.val))

CIELUVtoRGBW ==
    /\ Holds("CIELUV")
    /\ Apply("CIELUV->RGBW", "RGBW", RGBWfromCIELUV(cur.val))

HCLtoRGBW ==
    /\ Holds("HCL")
    /\ Apply("HCL->RGBW", "RGBW", RGBWfromHCL(cur.val))

RGBtoXYZ ==
    /\ Holds("RGB")
    /\ Apply("RGB->XYZ", "XYZ", XYZfromRGB(cur.val))

CIELUVtoXYZ ==
    /\ Holds("CIELUV")
    /\ Apply("CIELUV->XYZ", "XYZ", XYZfromCIELUV(cur.val))

XYZtoCIELUV ==
    /\ Holds("XYZ")
    /\ Apply("XYZ->CIELUV", "CIELUV", CIELUVfromXYZ(cur.val))

RGBtoCIELUV ==
    /\ Holds("RGB")
    /\ Apply("RGB->CIELUV", "CIELUV", CIELUVfromRGB(cur.val))

HCLtoCIELUV ==
    /\ Holds("HCL")
    /\ Apply("HCL->CIELUV", "CIELUV", CIELUVfromHCL(cur.val))

\* The two metrics of a CIELUV colour; their result is an f32.
Chroma ==
    /\ Holds("CIELUV")
    /\ Apply("chroma", "f32", [x |-> chroma(cur.val)])

Saturation ==
    /\ Holds("CIELUV")
    /\ Apply("saturation", "f32", [x |-> saturation(cur.val)])

\* One iteration of the loop of print_gradient_as_rgbw, i = grad.n.  The
\* loop also calls cieluv.hue(), a method lib.rs does not define; it is left
\* out.
GradientOutput(g, t, cieluv) ==
    [g EXCEPT !.n = g.n + 1, !.t = t, !.cieluv = cieluv,
              !.rgbw = RGBWfromCIELUV(cieluv),
              !.sat = saturation(cieluv), !.c = chroma(cieluv),
              !.last = g.cieluv, !.lastw = g.rgbw.w]

GradientAt(g, t) == GradientOutput(g, t, interpolate(g.a, g.b, t))

GradientStep ==
    /\ pc = "gradient"
    /\ grad.n <= grad.steps
    /\ grad' = GradientAt(grad, FDiv(FInt(grad.n), FInt(grad.steps)))
    /\ UNCHANGED <<pc, origin, path, prev, cur>>

Next ==
    \/ XYZtoRGB \/ CIELUVtoRGB \/ HCLtoRGB
    \/ RGBtoRGBW \/ XYZtoRGBW \/ CIELUVtoRGBW \/ HCLtoRGBW
    \/ RGBtoXYZ \/ CIELUVtoXYZ \/ XYZtoCIELUV \/ RGBtoCIELUV \/ HCLtoCIELUV
    \/ Chroma \/ Saturation
    \/ GradientStep

Spec == Init /\ [][Next]_vars

(***************************************************************************)
(* Vocabulary of the properties.                                           *)
(***************************************************************************)
Converted == pc = "convert" /\ Len(path) >= 1
LastOp == path[Len(path)]
Did(name) == Converted /\ LastOp = name

Channels(c) ==
    IF c.space = "RGB" THEN {c.val.r, c.val.g, c.val.b}
    ELSE IF c.space = "RGBW" THEN {c.val.r, c.val.g, c.val.b, c.val.w}
    ELSE IF c.space = "XYZ" THEN {c.val.x, c.val.y, c.val.z}
    ELSE IF c.space = "CIELUV" THEN {c.val.l, c.val.u, c.val.v}
    ELSE IF c.space = "HCL" THEN {c.val.h, c.val.c, c.val.l}
    ELSE {c.val.x}

FiniteColour(c) == \A x \in Channels(c) : IsFinite(x)
InUnit(x) == FGe(x, F0) /\ FLe(x, F1)
AllInUnit(c) == \A x \in Channels(c) : InUnit(x)

\* The denominators of the divisions a conversion evaluates on its argument.
DenominatorsCIELUVtoXYZ(cieluv) ==
    IF FEq(cieluv.l, F0) THEN {}
    ELSE {FMul(FInt(13), cieluv.l), FMul(FInt(4), LuvVPrime(cieluv)),
          IF FGt(cieluv.l, FInt(8)) THEN FInt(116) ELSE F903_3}

DenominatorsXYZtoCIELUV(xyz) ==
    IF FEq(xyz.x, F0) /\ FEq(xyz.y, F0) /\ FEq(xyz.z, F0) THEN {}
    ELSE {PrimeDenominator(xyz), Y_REF}

DenominatorsSaturation(cieluv) ==
    IF FLe(cieluv.l, F0) THEN {} ELSE {cieluv.l}

Denominators(name, c) ==
    IF name = "XYZ->CIELUV" THEN DenominatorsXYZtoCIELUV(c)
    ELSE IF name = "CIELUV->XYZ" \/ name = "CIELUV->RGB" THEN DenominatorsCIELUVtoXYZ(c)
    ELSE IF name = "CIELUV->RGBW"
         THEN DenominatorsSaturation(c) \cup DenominatorsCIELUVtoXYZ(c)
    ELSE IF name = "saturation" THEN DenominatorsSaturation(c)
    ELSE {}

ClampedOps ==
    {"XYZ->RGB", "CIELUV->RGB", "HCL->RGB", "XYZ->RGBW", "CIELUV->RGBW", "HCL->RGBW"}

GuardedOps ==
    {"XYZ->CIELUV", "CIELUV->XYZ", "CIELUV->RGB", "CIELUV->RGBW", "saturation"}

Stepped == pc = "gradient" /\ grad.n >= 1
Components == {"l", "u", "v"}
Between(x, start, end) ==
    \/ FLe(start, x) /\ FLe(x, end)
    \/ FLe(end, x) /\ FLe(x, start)
Onward(x, last, start, end) ==
    IF FGe(end, start) THEN FGe(x, last) ELSE FLe(x, last)

(***************************************************************************)
(* The properties.                                                         *)
(***************************************************************************)

\* C1: every channel of the RGB or RGBW that XYZ->RGB, CIELUV->RGB, HCL->RGB,
\* XYZ->RGBW, CIELUV->RGBW or HCL->RGBW produces from a finite colour lies in
\* [0.0, 1.0].
ClampGuarantee ==
    (Converted /\ LastOp \in ClampedOps /\ FiniteColour(prev)) => AllInUnit(cur)

\* C2: on a finite colour, XYZ->CIELUV, CIELUV->XYZ, CIELUV->RGB, CIELUV->RGBW
\* and saturation evaluate no division whose denominator is zero, and their
\* result holds neither NaN nor an infinity.
ZeroGuardsSuffice ==
    (Converted /\ LastOp \in GuardedOps /\ FiniteColour(prev)) =>
        /\ \A d \in Denominators(LastOp, prev.val) : ~IsZero(d)
        /\ FiniteColour(cur)

\* C3: in the gradient of 100 steps from CIELUV::from(RGB::BLACK) to
\* CIELUV::from(RGB::WHITE), w is 0.0 at the first step, never decreases from
\* one step to the next, and is 1.0 to two decimals at the last step.
BlackWhiteGradient ==
    /\ Stepped
    /\ grad.from = Tag("RGB", BLACK) /\ grad.to = Tag("RGB", WHITE)
    /\ grad.steps = TestSteps

BlackToWhiteRises ==
    BlackWhiteGradient =>
        /\ grad.n = 1 => FEq(grad.rgbw.w, F0)
        /\ grad.n > 1 => FGe(grad.rgbw.w, grad.lastw)
        /\ grad.n = grad.steps + 1 => FEq(round(grad.rgbw.w), F1)

\* C4: for red, green, blue, magenta and yellow, RGB -> CIELUV -> RGBW equals
\* RGB -> RGBW on r, g, b and w after rounding to two decimals.
Primaries == {RED, GREEN, BLUE, MAGENTA, YELLOW}

ViaCIELUV ==
    /\ pc = "convert"
    /\ origin.space = "RGB"
    /\ path = <<"RGB->CIELUV", "CIELUV->RGBW">>

CleanConversion ==
    (ViaCIELUV /\ origin.val \in Primaries) =>
        approximately_equal(cur.val, RGBWfromRGB(origin.val))

CleanConversionWitness ==
    /\ ViaCIELUV
    /\ origin.val = MAGENTA
    /\ FGe(saturation(prev.val), F1)
    /\ FGt(cur.val.g, F0)

\* C5: all four channels of the RGBW that RGB -> RGBW produces lie in
\* [0.0, 1.0], whatever the channels of the RGB.
RGBWInRange == Did("RGB->RGBW") => AllInUnit(cur)

\* C6: interpolate(a, b, 0.0) equals a and interpolate(a, b, 1.0) equals b on
\* l, u and v.
InterpolationEndpoints ==
    Stepped =>
        /\ FEq(grad.t, F0) => \A f \in Components : FEq(grad.cieluv[f], grad.a[f])
        /\ FEq(grad.t, F1) => \A f \in Components : FEq(grad.cieluv[f], grad.b[f])

\* C7: along interpolate(a, b, i/N), i = 0..N, each of l, u and v stays
\* between its start and its end value and moves from one step to the next
\* only in the direction of its end value.
GradientMonotone ==
    Stepped =>
        \A f \in Components :
            /\ Between(grad.cieluv[f], grad.a[f], grad.b[f])
            /\ grad.n > 1 => Onward(grad.cieluv[f], grad.last[f], grad.a[f], grad.b[f])

BlackPoint ==
    /\ (Did("CIELUV->XYZ") /\ FEq(prev.val.l, F0)) => cur.val = MkXYZ(F0, F0, F0)
    /\ (Did("XYZ->CIELUV") /\ prev.val = MkXYZ(F0, F0, F0)) =>
           cur.val = MkCIELUV(F0, F0, F0)

BlackPointWitness ==
    /\ Did("CIELUV->XYZ")
    /\ FEq(prev.val.l, F0)
    /\ ~IsZero(prev.val.u)

\* C10: CIELUV -> RGBW of a finite colour with l > 0 gives w = 0 when
\* saturation() >= 1, and r = g = b = 0 when u = v = 0.
SaturationSplit ==
    (Did("CIELUV->RGBW") /\ FiniteColour(prev) /\ FGt(prev.val.l, F0)) =>
        /\ FGe(saturation(prev.val), F1) => FEq(cur.val.w, F0)
        /\ (IsZero(prev.val.u) /\ IsZero(prev.val.v)) =>
              FEq(cur.val.r, F0) /\ FEq(cur.val.g, F0) /\ FEq(cur.val.b, F0)

====
